---- MODULE Spec2Model ----
(***************************************************************************)
(* Jamabandi land area calculator (src/app.py).                            *)
(*                                                                         *)
(* The program reads a table of land records (a pandas DataFrame), coerces *)
(* its Kanal and Marla columns to numbers, attaches the per-row area in    *)
(* Sarshai, sums it, and decomposes the sum into Kila/Kanal/Marla/Sarshai. *)
(*                                                                         *)
(* A table cell is a record [kind, val]:                                   *)
(*   kind = "num"  a number (val is the integer),                          *)
(*   kind = "nan"  a missing cell (read_csv gives NaN for an empty field), *)
(*   kind = "str"  a text cell that is not a number (val tells two texts   *)
(*                 apart).                                                 *)
(* A row is a function from the table's column names to cells; a table is  *)
(* its set of column names and its sequence of rows.                       *)
(***************************************************************************)
EXTENDS Integers, Sequences, FiniteSets

VARIABLES
    pc,             \* position of the script run: "idle", "done", "rejected",
                    \* "warned", "parse_error"; "call"/"returned" in SpecConv
    input_columns,  \* the column names of the table as it was read
    input,          \* the rows of the table as it was read (never written again)
    columns,        \* main's df: its column names
    df,             \* main's df: its rows, as process_data leaves them
    total_sarshai,  \* the grand total process_data hands to convert_from_sarshai
    totals,         \* <<kila, kanal, marla, sarshai>> once computed, <<>> before
    error           \* the exception that ended process_data, "" when none

vars == <<pc, input_columns, input, columns, df, total_sarshai, totals, error>>

----------------------------------------------------------------------------
(* Bounds of the model. *)

MaxRows == 2
MaxTotal == 3000

----------------------------------------------------------------------------
(* Conversion constants. *)

MARLA_PER_SARSHAI == 9
KANAL_PER_MARLA == 20
KILA_PER_KANAL == 8

----------------------------------------------------------------------------
(* Cells. *)

Num(n) == [kind |-> "num", val |-> n]
NaN == [kind |-> "nan", val |-> 0]
Text(i) == [kind |-> "str", val |-> i]

(* The two rows of the sample table, (Kanal, Marla) = (0, 19) and (0, 3). *)
sample_data ==
    << <<Num(0), Num(19)>>, <<Num(0), Num(3)>> >>

(* Python's floor division and modulus by a positive divisor. *)
FloorDiv(a, b) == a \div b
FloorMod(a, b) == a % b

(* A wrong division: truncation toward zero, with the remainder of C. *)
TruncDiv(a, b) == IF a >= 0 THEN a \div b ELSE 0 - ((0 - a) \div b)

----------------------------------------------------------------------------
(* The pure functions. *)

(* A wrong conversion that forgets the Marla-to-Sarshai factor. *)
convert_to_standard_units_unscaled(kanal, marla) ==
    (kanal * KANAL_PER_MARLA * MARLA_PER_SARSHAI) + marla

(* A wrong conversion with an additive per-call constant. *)
convert_to_standard_units_offset(kanal, marla) ==
    (kanal * KANAL_PER_MARLA * MARLA_PER_SARSHAI) + (marla * MARLA_PER_SARSHAI) + 1

(* A wrong conversion that uses the Kila ratio for Kanal. *)
convert_to_standard_units_kila(kanal, marla) ==
    (kanal * KILA_PER_KANAL * MARLA_PER_SARSHAI) + (marla * MARLA_PER_SARSHAI)

convert_to_standard_units(kanal, marla) ==
    (kanal * KANAL_PER_MARLA * MARLA_PER_SARSHAI) + (marla * MARLA_PER_SARSHAI)

(* A wrong decomposition that does not reduce the remainder before Marla. *)
convert_from_sarshai_stale_remainder(total) ==
    LET kila == FloorDiv(total, KILA_PER_KANAL * KANAL_PER_MARLA * MARLA_PER_SARSHAI)
        remainder == FloorMod(total, KILA_PER_KANAL * KANAL_PER_MARLA * MARLA_PER_SARSHAI)
        kanal == FloorDiv(remainder, KANAL_PER_MARLA * MARLA_PER_SARSHAI)
        marla == FloorDiv(remainder, MARLA_PER_SARSHAI)
        sarshai == FloorMod(remainder, MARLA_PER_SARSHAI)
    IN  <<kila, kanal, marla, sarshai>>

(* A wrong decomposition that takes Kanal from the whole total. *)
convert_from_sarshai_whole_kanal(total) ==
    LET kila == FloorDiv(total, KILA_PER_KANAL * KANAL_PER_MARLA * MARLA_PER_SARSHAI)
        kanal == FloorDiv(total, KANAL_PER_MARLA * MARLA_PER_SARSHAI)
        remainder2 == FloorMod(total, KANAL_PER_MARLA * MARLA_PER_SARSHAI)
        marla == FloorDiv(remainder2, MARLA_PER_SARSHAI)
        sarshai == FloorMod(remainder2, MARLA_PER_SARSHAI)
    IN  <<kila, kanal, marla, sarshai>>

(* A wrong decomposition that truncates toward zero. *)
convert_from_sarshai_truncating(total) ==
    LET perKila == KILA_PER_KANAL * KANAL_PER_MARLA * MARLA_PER_SARSHAI
        perKanal == KANAL_PER_MARLA * MARLA_PER_SARSHAI
        kila == TruncDiv(total, perKila)
        remainder == total - kila * perKila
        kanal == TruncDiv(remainder, perKanal)
        remainder2 == remainder - kanal * perKanal
        marla == TruncDiv(remainder2, MARLA_PER_SARSHAI)
        sarshai == remainder2 - marla * MARLA_PER_SARSHAI
    IN  <<kila, kanal, marla, sarshai>>

convert_from_sarshai(total) ==
    LET kila == FloorDiv(total, KILA_PER_KANAL * KANAL_PER_MARLA * MARLA_PER_SARSHAI)
        remainder == FloorMod(total, KILA_PER_KANAL * KANAL_PER_MARLA * MARLA_PER_SARSHAI)
        kanal == FloorDiv(remainder, KANAL_PER_MARLA * MARLA_PER_SARSHAI)
        remainder2 == FloorMod(remainder, KANAL_PER_MARLA * MARLA_PER_SARSHAI)
        marla == FloorDiv(remainder2, MARLA_PER_SARSHAI)
        sarshai == FloorMod(remainder2, MARLA_PER_SARSHAI)
    IN  <<kila, kanal, marla, sarshai>>

----------------------------------------------------------------------------
(* process_data. *)

(* A wrong coercion that fills a bad cell with 1. *)
to_numeric_fillna_one(cell) ==
    IF cell.kind = "num" THEN cell ELSE Num(1)

(* pd.to_numeric(errors='coerce') then fillna(0), on one cell. *)
to_numeric_fillna(cell) ==
    IF cell.kind = "num" THEN cell ELSE Num(0)

(* df[col] = pd.to_numeric(df[col], errors='coerce').fillna(0): the column *)
(* rewritten in place, cell by cell.                                       *)
CoerceColumn(rows, col) ==
    [i \in DOMAIN rows |-> [rows[i] EXCEPT ![col] = to_numeric_fillna(rows[i][col])]]

(* A wrong attachment that returns the rows in reverse order. *)
AttachTotalReversed(rows, cols) ==
    [i \in DOMAIN rows |->
        [c \in cols \cup {"Total_Sarshai"} |->
            IF c = "Total_Sarshai"
            THEN Num(convert_to_standard_units(rows[Len(rows) + 1 - i]["Kanal"].val,
                                               rows[Len(rows) + 1 - i]["Marla"].val))
            ELSE rows[Len(rows) + 1 - i][c]]]

(* df['Total_Sarshai'] = ...: added when absent, overwritten when present. *)
AttachTotal(rows, cols) ==
    [i \in DOMAIN rows |->
        [c \in cols \cup {"Total_Sarshai"} |->
            IF c = "Total_Sarshai"
            THEN Num(convert_to_standard_units(rows[i]["Kanal"].val, rows[i]["Marla"].val))
            ELSE rows[i][c]]]

RECURSIVE SumColumn(_, _)
SumColumn(rows, col) ==
    IF rows = <<>> THEN 0
    ELSE rows[1][col].val + SumColumn(Tail(rows), col)

(* process_data(df): what it leaves in df and what it returns or raises. *)
process_data(rows, cols) ==
    IF "Kanal" \notin cols
    THEN [df |-> rows, columns |-> cols, total |-> 0, totals |-> <<>>,
          error |-> "KeyError: 'Kanal'"]
    ELSE LET rows1 == CoerceColumn(rows, "Kanal")
         IN  IF "Marla" \notin cols
             THEN [df |-> rows1, columns |-> cols, total |-> 0, totals |-> <<>>,
                   error |-> "KeyError: 'Marla'"]
             ELSE LET rows2 == CoerceColumn(rows1, "Marla")
                      rows3 == AttachTotal(rows2, cols)
                      total == SumColumn(rows3, "Total_Sarshai")
                  IN  [df |-> rows3, columns |-> cols \cup {"Total_Sarshai"},
                       total |-> total, totals |-> convert_from_sarshai(total),
                       error |-> ""]

----------------------------------------------------------------------------
(* The tables the program can be given. *)

(* Kanal cells: missing, text, small numbers (one negative), a whole Kila. *)
KanalCells ==
    {NaN, Text(0)} \cup {Num(n) : n \in (-1)..1} \cup {Num(KILA_PER_KANAL)}

(* Marla cells: missing, text, small numbers (one negative), the sample's. *)
MarlaCells ==
    {NaN, Text(0)} \cup {Num(n) : n \in (-1)..1}
        \cup {sample_data[i][2] : i \in DOMAIN sample_data}

ColumnSets == {{"Khasra"} \cup s : s \in SUBSET {"Kanal", "Marla", "Total_Sarshai"}}

(* The (Kanal, Marla) cells of one row; a column the table lacks has none. *)
CellPairs(cols) ==
    (IF "Kanal" \in cols THEN KanalCells ELSE {NaN})
        \X (IF "Marla" \in cols THEN MarlaCells ELSE {NaN})

(* Row i of a table with columns cols: Khasra tells the rows apart; a      *)
(* Total_Sarshai column already in the file holds an arbitrary old value.  *)
Row(cols, i, pair) ==
    [c \in cols |->
        CASE c = "Khasra" -> Text(i)
          [] c = "Kanal" -> pair[1]
          [] c = "Marla" -> pair[2]
          [] c = "Total_Sarshai" -> Num(7)]

Table(cols, cells) == [i \in DOMAIN cells |-> Row(cols, i, cells[i])]

----------------------------------------------------------------------------
(* main: one script run per interaction. *)

Init ==
    /\ pc = "idle"
    /\ input_columns = {}
    /\ input = <<>>
    /\ columns = {}
    /\ df = <<>>
    /\ total_sarshai = 0
    /\ totals = <<>>
    /\ error = ""

(* df is not None: process_data runs, uncaught exceptions end the run. *)
RunProcess(cols, rows) ==
    \E r \in {process_data(rows, cols)} :
        /\ input_columns' = cols
        /\ input' = rows
        /\ columns' = r.columns
        /\ df' = r.df
        /\ total_sarshai' = r.total
        /\ totals' = r.totals
        /\ error' = r.error
        /\ pc' = IF r.error = "" THEN "done" ELSE "rejected"

(* "Upload CSV File", Process Data pressed: read_csv succeeds. *)
ProcessUpload ==
    /\ pc = "idle"
    /\ \E cols \in ColumnSets, n \in 0..MaxRows :
        \E cells \in [1..n -> CellPairs(cols)] :
            RunProcess(cols, Table(cols, cells))

(* "Upload CSV File", Process Data pressed: read_csv raises, df stays None. *)
ProcessUploadError ==
    /\ pc = "idle"
    /\ pc' = "parse_error"
    /\ UNCHANGED <<input_columns, input, columns, df, total_sarshai, totals, error>>

(* "Paste Table Data", Process Data pressed on pasted text.  pd.compat.StringIO *)
(* exists in some pandas builds only: the text is parsed, or the attribute      *)
(* error is caught and shown and df stays None.                                 *)
ProcessPaste ==
    /\ pc = "idle"
    /\ \/ \E cols \in ColumnSets, n \in 0..MaxRows :
            \E cells \in [1..n -> CellPairs(cols)] :
                RunProcess(cols, Table(cols, cells))
       \/ /\ pc' = "parse_error"
          /\ UNCHANGED <<input_columns, input, columns, df, total_sarshai, totals, error>>

(* "Paste Table Data", Process Data pressed on an empty text area. *)
ProcessPasteEmpty ==
    /\ pc = "idle"
    /\ pc' = "warned"
    /\ UNCHANGED <<input_columns, input, columns, df, total_sarshai, totals, error>>

(* The next interaction reruns the script from the top: df = None. *)
Rerun ==
    /\ pc \in {"done", "rejected", "warned", "parse_error"}
    /\ pc' = "idle"
    /\ input_columns' = {}
    /\ input' = <<>>
    /\ columns' = {}
    /\ df' = <<>>
    /\ total_sarshai' = 0
    /\ totals' = <<>>
    /\ error' = ""

Next ==
    \/ ProcessUpload
    \/ ProcessUploadError
    \/ ProcessPaste
    \/ ProcessPasteEmpty
    \/ Rerun

Spec == Init /\ [][Next]_vars

----------------------------------------------------------------------------
(* convert_from_sarshai on its own, over a range of totals. *)

InitConv ==
    /\ pc = "call"
    /\ total_sarshai \in (0 - MaxTotal)..MaxTotal
    /\ totals = <<>>
    /\ input_columns = {}
    /\ input = <<>>
    /\ columns = {}
    /\ df = <<>>
    /\ error = ""

CallConvert ==
    /\ pc = "call"
    /\ totals' = convert_from_sarshai(total_sarshai)
    /\ pc' = "returned"
    /\ UNCHANGED <<input_columns, input, columns, df, total_sarshai, error>>

NextConv == CallConvert

SpecConv == InitConv /\ [][NextConv]_vars

----------------------------------------------------------------------------
(* Vocabulary of the properties. *)

Returned == pc = "returned"
Done == pc = "done"
Ended == pc \in {"done", "rejected"}
RequiredColumns == {"Kanal", "Marla"}
HasRequired == RequiredColumns \subseteq input_columns

(* The value a cell stands for when a bad cell counts as 0. *)
ValueOrZero(cell) == IF cell.kind = "num" THEN cell.val ELSE 0

AllNumeric(rows) ==
    \A i \in DOMAIN rows : rows[i]["Kanal"].kind = "num" /\ rows[i]["Marla"].kind = "num"

AllNonNegative(rows) ==
    /\ AllNumeric(rows)
    /\ \A i \in DOMAIN rows : rows[i]["Kanal"].val >= 0 /\ rows[i]["Marla"].val >= 0

RECURSIVE SumOf(_, _)
SumOf(rows, col) ==
    IF rows = <<>> THEN 0
    ELSE ValueOrZero(rows[1][col]) + SumOf(Tail(rows), col)

RECURSIVE SumConverted(_)
SumConverted(rows) ==
    IF rows = <<>> THEN 0
    ELSE convert_to_standard_units(rows[1]["Kanal"].val, rows[1]["Marla"].val)
            + SumConverted(Tail(rows))

(* The columns an error message names. *)
NamedIn(msg) == {c \in RequiredColumns : msg = "KeyError: '" \o c \o "'"}

(* Whether rows carry exactly the (Kanal, Marla) cells of pairs, in order. *)
HoldsPairs(rows, pairs) ==
    /\ Len(rows) = Len(pairs)
    /\ \A i \in DOMAIN pairs :
        rows[i]["Kanal"] = pairs[i][1] /\ rows[i]["Marla"] = pairs[i][2]

----------------------------------------------------------------------------
(* convert_from_sarshai: properties checked under SpecConv. *)

(* C1: round trip.  For every non-negative integer total, the tuple       *)
(* (kila, kanal, marla, sarshai) returned by convert_from_sarshai(total)   *)
(* satisfies kila*1440 + kanal*180 + marla*9 + sarshai = total.            *)
C1_RoundTrip ==
    (Returned /\ total_sarshai >= 0) =>
        totals[1] * 1440 + totals[2] * 180 + totals[3] * 9 + totals[4] = total_sarshai

C1_Witness ==
    Returned /\ total_sarshai = 1831 /\ totals = <<1, 2, 3, 4>>

(* C2: canonical form.  For every non-negative integer total the returned  *)
(* tuple has 0 <= kanal < 8, 0 <= marla < 20, 0 <= sarshai < 9, and it is  *)
(* the only tuple in those ranges that reassembles to total.               *)
C2_CanonicalForm ==
    (Returned /\ total_sarshai >= 0) =>
        /\ totals[1] >= 0
        /\ totals[2] \in 0..7
        /\ totals[3] \in 0..19
        /\ totals[4] \in 0..8
        /\ \A k \in 0..((MaxTotal \div 1440) + 1), a \in 0..7, m \in 0..19, s \in 0..8 :
            (k * 1440 + a * 180 + m * 9 + s = total_sarshai) => (<<k, a, m, s>> = totals)

C2_Witness ==
    Returned /\ total_sarshai = 2879 /\ totals = <<1, 7, 19, 8>>

(* C9: signed pass-through.  For every negative integer total, kila is     *)
(* negative while 0 <= kanal < 8, 0 <= marla < 20, 0 <= sarshai < 9 and    *)
(* kila*1440 + kanal*180 + marla*9 + sarshai = total still hold.           *)
C9_NegativeTotals ==
    (Returned /\ total_sarshai < 0) =>
        /\ totals[1] < 0
        /\ totals[2] \in 0..7
        /\ totals[3] \in 0..19
        /\ totals[4] \in 0..8
        /\ totals[1] * 1440 + totals[2] * 180 + totals[3] * 9 + totals[4] = total_sarshai

C9_Witness ==
    Returned /\ total_sarshai = 0 - 1 /\ totals = <<0 - 1, 7, 19, 8>>

----------------------------------------------------------------------------
(* process_data: properties checked under Spec. *)

(* C3: summation commutes with conversion.  For a table of integer Kanal   *)
(* and Marla cells, the grand total process_data decomposes is the sum of  *)
(* the per-row conversions, and it equals the conversion of the summed     *)
(* Kanal and the summed Marla.                                             *)
C3_SumCommutes ==
    (Done /\ AllNumeric(input)) =>
        /\ total_sarshai = SumConverted(input)
        /\ total_sarshai =
            convert_to_standard_units(SumOf(input, "Kanal"), SumOf(input, "Marla"))

C3_Witness ==
    /\ Done
    /\ HoldsPairs(input, << <<Num(1), Num(19)>>, <<Num(8), Num(3)>> >>)
    /\ total_sarshai = 1818

(* C4: missing-column rejection.  When the table lacks Kanal or Marla the  *)
(* run is rejected with an error naming the missing columns, no total is   *)
(* computed, no Total_Sarshai column is attached and the table is left as  *)
(* it was read.                                                            *)
C4_MissingColumnRejected ==
    (Ended /\ ~HasRequired) =>
        /\ pc = "rejected"
        /\ NamedIn(error) = RequiredColumns \ input_columns
        /\ totals = <<>>
        /\ columns = input_columns
        /\ df = input

(* C5: cell-level coercion.  With both columns present, a missing or       *)
(* non-numeric Kanal or Marla cell never fails the run; it counts as 0 in  *)
(* its row's value, and every row's value and the grand total are those    *)
(* of the table with that cell set to 0.                                   *)
C5_CellCoercion ==
    (Ended /\ HasRequired) =>
        /\ Done
        /\ error = ""
        /\ Len(df) = Len(input)
        /\ \A i \in DOMAIN input :
            df[i]["Total_Sarshai"].val =
                ValueOrZero(input[i]["Kanal"]) * 180 + ValueOrZero(input[i]["Marla"]) * 9
        /\ total_sarshai = SumOf(input, "Kanal") * 180 + SumOf(input, "Marla") * 9

C5_Witness ==
    /\ Done
    /\ HoldsPairs(input, << <<Num(1), NaN>>, <<Text(0), Num(3)>> >>)
    /\ df[1]["Total_Sarshai"] = Num(180)
    /\ df[2]["Total_Sarshai"] = Num(27)
    /\ total_sarshai = 207

(* C6: no mutation of raw inputs.  After process_data returns, the table   *)
(* holds the Kanal and Marla cells it held when it was read, bad cells     *)
(* included.                                                               *)
C6_RawCellsKept ==
    Done =>
        \A i \in DOMAIN input :
            df[i]["Kanal"] = input[i]["Kanal"] /\ df[i]["Marla"] = input[i]["Marla"]

(* C7: pipeline result.  For non-negative integer cells each row gets      *)
(* kanal*180 + marla*9 and the totals are the decomposition of the sum of  *)
(* those values; the sample rows (0, 19), (0, 3) give 171 and 27, the      *)
(* total 198 and (0, 1, 2, 0); an empty or all-zero table gives            *)
(* (0, 0, 0, 0).                                                           *)
C7_PipelineResult ==
    (Done /\ AllNonNegative(input)) =>
        LET S == SumOf(df, "Total_Sarshai")
        IN  /\ \A i \in DOMAIN input :
                df[i]["Total_Sarshai"] =
                    Num(input[i]["Kanal"].val * 180 + input[i]["Marla"].val * 9)
            /\ total_sarshai = S
            /\ totals = << S \div 1440, (S % 1440) \div 180,
                           ((S % 1440) % 180) \div 9, ((S % 1440) % 180) % 9 >>
            /\ HoldsPairs(input, sample_data) =>
                /\ df[1]["Total_Sarshai"] = Num(171)
                /\ df[2]["Total_Sarshai"] = Num(27)
                /\ total_sarshai = 198
                /\ totals = <<0, 1, 2, 0>>
            /\ (\A i \in DOMAIN input :
                    input[i]["Kanal"].val = 0 /\ input[i]["Marla"].val = 0) =>
                totals = <<0, 0, 0, 0>>

C7_Witness ==
    /\ Done
    /\ HoldsPairs(input, sample_data)
    /\ total_sarshai = 198
    /\ totals = <<0, 1, 2, 0>>

(* C8 as stated: the same rows in the same order and number, every column  *)
(* other than Kanal, Marla and Total_Sarshai unchanged, and exactly one    *)
(* column added.                                                           *)
C8_OneColumnAdded ==
    Done =>
        /\ Len(df) = Len(input)
        /\ \A i \in DOMAIN input :
            \A c \in input_columns \ {"Kanal", "Marla", "Total_Sarshai"} :
                df[i][c] = input[i][c]
        /\ input_columns \subseteq columns
        /\ Cardinality(columns) = Cardinality(input_columns) + 1

(* C8, amended: the same rows in the same order and number, every column   *)
(* other than Kanal, Marla and Total_Sarshai unchanged; the columns after  *)
(* the call are the table's columns and Total_Sarshai, which is added when *)
(* the table had no column of that name and overwritten when it had.       *)
C8_PassThrough ==
    Done =>
        /\ Len(df) = Len(input)
        /\ \A i \in DOMAIN input :
            /\ DOMAIN df[i] = columns
            /\ \A c \in input_columns \ {"Kanal", "Marla", "Total_Sarshai"} :
                df[i][c] = input[i][c]
        /\ columns = input_columns \cup {"Total_Sarshai"}
        /\ Cardinality(columns) =
            Cardinality(input_columns) + (IF "Total_Sarshai" \in input_columns THEN 0 ELSE 1)

C8_Witness ==
    /\ Done
    /\ Len(input) = 2
    /\ "Total_Sarshai" \in input_columns
    /\ input[1]["Khasra"] # input[2]["Khasra"]
    /\ df[1]["Khasra"] = input[1]["Khasra"]
    /\ df[2]["Khasra"] = input[2]["Khasra"]
    /\ df[1]["Total_Sarshai"] # input[1]["Total_Sarshai"]

(* C10: the Sarshai component is always zero in the pipeline.  Every       *)
(* per-row value and the grand total are multiples of 9, and the totals    *)
(* are (K div 8, K mod 8, M, 0) with M = (sum of marla) mod 20 and         *)
(* K = sum of kanal + (sum of marla) div 20, bad cells counting as 0.      *)
C10_SarshaiZero ==
    Done =>
        LET sumKanal == SumOf(input, "Kanal")
            sumMarla == SumOf(input, "Marla")
            K == sumKanal + (sumMarla \div 20)
            M == sumMarla % 20
        IN  /\ \A i \in DOMAIN df : df[i]["Total_Sarshai"].val % 9 = 0
            /\ total_sarshai % 9 = 0
            /\ totals[4] = 0
            /\ totals = <<K \div 8, K % 8, M, 0>>

C10_Witness ==
    /\ Done
    /\ HoldsPairs(input, << <<Num(8), Num(19)>>, <<Num(1), Num(3)>> >>)
    /\ totals = <<1, 2, 2, 0>>

====
